---------------------------- MODULE Spec2Model ----------------------------
(***************************************************************************)
(* A model of sopel-tts (src/tts.py): the chat handlers speak and control, *)
(* the two worker processes handle_messages and play_audio, the two queues *)
(* between them, the temporary audio files, and the pure helpers           *)
(* nick2bucket, clean_message and clean_token.                             *)
(*                                                                         *)
(* Text is a sequence of one-character strings, so that strip, lower,      *)
(* split, startswith and the regular expressions act on characters.        *)
(***************************************************************************)
EXTENDS Integers, Sequences, FiniteSets, TLC

(***************************************************************************)
(* Bounds of the model.                                                    *)
(***************************************************************************)
\* messages the ingestion side puts on the text queue, the startup one included
MaxMsgs == 3
\* longest identity handed to nick2bucket in the bucket specification
MaxNickLen == 2
\* longest generated token handed to clean_message and to the collapse
MaxTokenLen == 5

(***************************************************************************)
(* Characters and strings.                                                 *)
(***************************************************************************)
\* ord() of the characters the model uses
Ord(c) ==
    CASE c = " " -> 32
      [] c = "!" -> 33
      [] c = "&" -> 38
      [] c = "*" -> 42
      [] c = "." -> 46
      [] c = "/" -> 47
      [] c = "3" -> 51
      [] c = ":" -> 58
      [] c = "<" -> 60
      [] c = ">" -> 62
      [] c = "A" -> 65
      [] c = "B" -> 66
      [] c = "H" -> 72
      [] c = "L" -> 76
      [] c = "O" -> 79
      [] c = "[" -> 91
      [] c = "\\" -> 92
      [] c = "a" -> 97
      [] c = "b" -> 98
      [] c = "c" -> 99
      [] c = "h" -> 104
      [] c = "i" -> 105
      [] c = "l" -> 108
      [] c = "o" -> 111
      [] c = "p" -> 112
      [] c = "s" -> 115
      [] c = "t" -> 116
      [] c = "w" -> 119

\* str.lower() on one character
LowerChar(c) ==
    CASE c = "A" -> "a"
      [] c = "B" -> "b"
      [] c = "H" -> "h"
      [] c = "L" -> "l"
      [] c = "O" -> "o"
      [] OTHER   -> c

Lower(s) == [i \in DOMAIN s |-> LowerChar(s[i])]

IsSpace(c) == c = " "

RECURSIVE LStrip(_)
LStrip(s) == IF s # <<>> /\ IsSpace(Head(s)) THEN LStrip(Tail(s)) ELSE s

RECURSIVE RStrip(_)
RStrip(s) ==
    IF s # <<>> /\ IsSpace(s[Len(s)]) THEN RStrip(SubSeq(s, 1, Len(s) - 1)) ELSE s

\* str.strip()
Strip(s) == RStrip(LStrip(s))

\* str.startswith(p)
StartsWith(s, p) == Len(p) <= Len(s) /\ SubSeq(s, 1, Len(p)) = p

\* str.endswith(p)
EndsWith(s, p) == Len(p) <= Len(s) /\ SubSeq(s, Len(s) - Len(p) + 1, Len(s)) = p

\* the words of s up to its first whitespace, and what follows them
RECURSIVE TakeWord(_)
TakeWord(s) ==
    IF s = <<>> \/ IsSpace(Head(s)) THEN <<>> ELSE <<Head(s)>> \o TakeWord(Tail(s))

\* str.split(): the maximal runs of non-whitespace characters
RECURSIVE Split(_)
Split(s) ==
    LET t == LStrip(s)
        w == TakeWord(t)
    IN  IF t = <<>> THEN <<>>
        ELSE <<w>> \o Split(SubSeq(t, Len(w) + 1, Len(t)))

\* u' '.join(parts)
RECURSIVE JoinSpace(_)
JoinSpace(parts) ==
    IF parts = <<>> THEN <<>>
    ELSE IF Len(parts) = 1 THEN parts[1]
    ELSE parts[1] \o <<" ">> \o JoinSpace(Tail(parts))


\* the first position of character c in s, 0 when it does not occur
RECURSIVE Find(_, _)
Find(s, c) ==
    IF s = <<>> THEN 0
    ELSE IF Head(s) = c THEN 1
    ELSE LET r == Find(Tail(s), c) IN IF r = 0 THEN 0 ELSE r + 1

\* the length of the longest prefix of s whose characters are all outside stop
RECURSIVE SpanUntil(_, _)
SpanUntil(s, stop) ==
    IF s = <<>> \/ Head(s) \in stop THEN 0 ELSE 1 + SpanUntil(Tail(s), stop)

(***************************************************************************)
(* nick2bucket: the identity, stripped and lower-cased, read as one big    *)
(* base-256 number, modulo the number of buckets.                          *)
(***************************************************************************)
\* int(s.encode('hex'), 16) % n, reduced digit by digit (Python's integers
\* are unbounded, so the reduction changes nothing)
RECURSIVE HexMod(_, _)
HexMod(s, n) ==
    IF s = <<>> THEN 0
    ELSE (HexMod(SubSeq(s, 1, Len(s) - 1), n) * 256 + Ord(s[Len(s)])) % n

\* the result of a call: the exception it raised ("" for none) and the
\* element it returned
Returned(x) == [exc |-> "", item |-> <<x>>]
Raised(e) == [exc |-> e, item |-> <<>>]

\* int('', 16) raises ValueError before len(buckets) is looked at
nick2bucket(nick, buckets) ==
    LET n == Lower(Strip(nick))
    IN  IF n = <<>> THEN Raised("ValueError")
        ELSE IF Len(buckets) = 0 THEN Raised("ZeroDivisionError")
        ELSE Returned(buckets[HexMod(n, Len(buckets)) + 1])

VALID_VOICE_PITCHES == <<"low", "medium", "medium", "medium", "high">>

(***************************************************************************)
(* clean_token and clean_message.  Markup that the templates and           *)
(* xml_escape write is kept as one element each, so that a reserved        *)
(* character copied from the input stays apart from generated markup.      *)
(***************************************************************************)
EmphasisOpen == "<emphasis level=\"strong\">"
EmphasisClose == "</emphasis>"
PhonemeOpen == "<phoneme ph=\"l o l\">"
PhonemeClose == "</phoneme>"

\* EMPHASIS_TEMPLATE.format('strong', t)
EMPHASIS_TEMPLATE(t) == <<EmphasisOpen>> \o t \o <<EmphasisClose>>

\* PHONEME_TEMPLATE.format('l o l', t)
PHONEME_TEMPLATE(t) == <<PhonemeOpen>> \o t \o <<PhonemeClose>>

\* urlparse.scheme_chars, as far as the model's characters go
IsSchemeChar(c) ==
    c \in {"a", "b", "c", "e", "h", "i", "l", "n", "o", "p", "r", "s", "t", "u",
           "w", "y", "A", "B", "H", "L", "O", "3", "+", "-", "."}

IsDigit(c) == c = "3"

\* urlparse.urlsplit: the scheme, the netloc, and whether it raises
\* ValueError("Invalid IPv6 URL")
urlparse(t) ==
    LET i == Find(t, ":")
        prefix == SubSeq(t, 1, i - 1)
        after == SubSeq(t, i + 1, Len(t))
        isScheme ==
            /\ i > 1
            /\ \/ prefix = <<"h", "t", "t", "p">>
               \/ /\ \A k \in DOMAIN prefix : IsSchemeChar(prefix[k])
                  /\ \/ after = <<>>
                     \/ \E k \in DOMAIN after : ~IsDigit(after[k])
        scheme == IF isScheme THEN Lower(prefix) ELSE <<>>
        url == IF isScheme THEN after ELSE t
        hasNetloc == StartsWith(url, <<"/", "/">>)
        rest == SubSeq(url, 3, Len(url))
        netloc ==
            IF hasNetloc THEN SubSeq(rest, 1, SpanUntil(rest, {"/", "?", "#"}))
            ELSE <<>>
    IN  [scheme |-> scheme,
         netloc |-> netloc,
         raises |-> (Find(netloc, "[") > 0) # (Find(netloc, "]") > 0)]

\* the host as clean_token speaks it: without a first label of one to three
\* equal characters
UrlHost(netloc) ==
    LET n == SpanUntil(netloc, {"."})
        first == SubSeq(netloc, 1, n)
    IN  IF n >= 1 /\ n <= 3 /\ \A k \in 1..n : first[k] = first[1]
        THEN SubSeq(netloc, n + 2, Len(netloc))
        ELSE netloc

\* a collapse that takes one character off a long run
RECURSIVE CollapseOneLess(_)
CollapseOneLess(t) ==
    IF t = <<>> THEN <<>>
    ELSE LET c == Head(t)
             run == SpanUntil(t, {x \in {t[k] : k \in DOMAIN t} : x # c})
             rest == CollapseOneLess(SubSeq(t, run + 1, Len(t)))
         IN  IF run >= 4 THEN SubSeq(t, 1, run - 1) \o rest
             ELSE SubSeq(t, 1, run) \o rest

\* re.sub(r'((.)\2)(\2{2,})', r'\1', t): a run of four or more equal
\* characters shrinks to two, a shorter run stays
RECURSIVE Collapse(_)
Collapse(t) ==
    IF t = <<>> THEN <<>>
    ELSE LET c == Head(t)
             run == SpanUntil(t, {x \in {t[k] : k \in DOMAIN t} : x # c})
             rest == Collapse(SubSeq(t, run + 1, Len(t)))
         IN  IF run >= 4 THEN <<c, c>> \o rest
             ELSE SubSeq(t, 1, run) \o rest

\* xml.sax.saxutils.escape
RECURSIVE xml_escape(_)
xml_escape(t) ==
    IF t = <<>> THEN <<>>
    ELSE (CASE Head(t) = "&" -> <<"&amp;">>
            [] Head(t) = "<" -> <<"&lt;">>
            [] Head(t) = ">" -> <<"&gt;">>
            [] OTHER -> <<Head(t)>>) \o xml_escape(Tail(t))

\* the entry of TOKEN_REPLACEMENT_MAP whose pattern matches at the start of
\* t (re.match with re.I), "" when none does
TokenReplacement(t) ==
    LET low == Lower(t)
    IN  IF StartsWith(low, <<"l", "o", "l">>) THEN "ph:l o l"
        ELSE IF StartsWith(low, <<"<", "3">>) THEN "heart"
        ELSE IF StartsWith(low, <<"\\", "o", "/">>) THEN "hurray"
        ELSE ""

clean_token(t) ==
    LET url == urlparse(t)
        rep == TokenReplacement(t)
        esc == xml_escape(Strip(Collapse(t)))
    IN  IF StartsWith(url.scheme, <<"h", "t", "t", "p">>)
        THEN EMPHASIS_TEMPLATE(UrlHost(url.netloc))
        ELSE IF rep = "ph:l o l" THEN PHONEME_TEMPLATE(t)
        ELSE IF rep = "heart" THEN <<"h", "e", "a", "r", "t">>
        ELSE IF rep = "hurray" THEN <<"h", "u", "r", "r", "a", "y">>
        ELSE IF StartsWith(esc, <<"*">>) /\ EndsWith(esc, <<"*">>) /\ Len(esc) >= 3
        THEN EMPHASIS_TEMPLATE(SubSeq(esc, 2, Len(esc) - 1))
        ELSE esc

\* clean_message raises when urlparse raises on one of its tokens: the call
\* is outside clean_token's try block
CleanRaises(msg) ==
    LET tokens == Split(msg) IN \E k \in DOMAIN tokens : urlparse(tokens[k]).raises

clean_message(msg) ==
    LET tokens == Split(msg)
    IN  Strip(JoinSpace([k \in DOMAIN tokens |-> clean_token(tokens[k])]))


(***************************************************************************)
(* Voices, the catalog and the configuration.                              *)
(***************************************************************************)
\* a provider's voice: its name, its language code split at '-', its service
VoiceJoanna == [name |-> "Joanna", lang_id |-> <<"en", "US">>, service |-> "aws"]
VoiceHans == [name |-> "Hans", lang_id |-> <<"de", "DE">>, service |-> "aws"]
VoiceEnWavenet ==
    [name |-> "en-US-Wavenet-A", lang_id |-> <<"en", "US">>, service |-> "google-cloud"]
VoiceDeStandard ==
    [name |-> "de-DE-Standard-A", lang_id |-> <<"de", "DE">>, service |-> "google-cloud"]

\* u'Wavenet' in v.name
IsWavenet(v) == v.name \in {"en-US-Wavenet-A"}

\* the voice names in the order Python compares them
NameOrder == <<"Hans", "Joanna", "de-DE-Standard-A", "en-US-Wavenet-A">>
NameRank(n) == CHOOSE i \in DOMAIN NameOrder : NameOrder[i] = n

\* sorted(vs, key=lambda v: v.name), stable
RECURSIVE SortByName(_)
SortByName(vs) ==
    IF vs = <<>> THEN <<>>
    ELSE LET least == CHOOSE i \in DOMAIN vs :
                        /\ \A j \in DOMAIN vs :
                              NameRank(vs[i].name) <= NameRank(vs[j].name)
                        /\ \A j \in 1..(i - 1) :
                              NameRank(vs[j].name) # NameRank(vs[i].name)
             others == [k \in 1..(Len(vs) - 1) |->
                          IF k < least THEN vs[k] ELSE vs[k + 1]]
         IN  <<vs[least]>> \o SortByName(others)

\* TTSHelper.get_all_voices over what the two providers list
get_all_voices(listing) == SortByName(listing.gcloud \o listing.aws)

\* what the two providers may answer to a listing request
ListingAws == [gcloud |-> <<>>, aws |-> <<VoiceJoanna, VoiceHans>>]
ListingBoth ==
    [gcloud |-> <<VoiceEnWavenet, VoiceDeStandard>>, aws |-> <<VoiceJoanna, VoiceHans>>]
ListingNone == [gcloud |-> <<>>, aws |-> <<>>]

\* set(v.lang_id.split('-')[0] for v in voices)
VoiceLangs(vs) == {vs[k].lang_id[1] : k \in DOMAIN vs}

\* v.lang_id.startswith(msg_lang + '-')
LangMatches(v, msg_lang) == Len(v.lang_id) >= 2 /\ v.lang_id[1] = msg_lang

\* the languages and the confidences (in hundredths) the classifier answers
DetectLangs == {"en", "de", "fr"}
DetectProbs == {10, 40, 90}
NoDetect == [lang |-> "", prob |-> 0]
Detections == [lang : DetectLangs, prob : DetectProbs]

\* whether lang_classifier.classify(orig_msg) is called for a message
Classifies(cfg) == ~cfg.force_lang

\* the language resolution without its look at the confidence
ResolveLangNoThreshold(cfg, voice_langs, det) ==
    IF cfg.force_lang THEN cfg.default_lang
    ELSE IF det.lang \notin voice_langs THEN cfg.default_lang ELSE det.lang

\* handle_messages, lines 174-186: the language a message is spoken in; det
\* is the classifier's answer, unused under force_lang
ResolveLang(cfg, voice_langs, det) ==
    IF cfg.force_lang THEN cfg.default_lang
    ELSE LET checked ==
                 IF det.prob < cfg.confidence_threshold THEN cfg.default_lang
                 ELSE det.lang
         IN  IF checked \notin voice_langs THEN cfg.default_lang ELSE checked

\* handle_messages, lines 187-190: the voices a message chooses among
MsgVoices(cfg, vs, msg_lang) ==
    LET ofLang(v) == LangMatches(v, msg_lang)
    IN  IF cfg.prefer_wavenet /\ \E k \in DOMAIN vs : IsWavenet(vs[k])
        THEN SelectSeq(vs, IsWavenet)
        ELSE SelectSeq(vs, ofLang)

\* names and channels
BotNick == <<"t", "t", "s">>
NickAl == <<"a", "l">>
NickBo == <<"B", "o">>
NickChanServ == <<"c", "s">>
ChanPub == <<"#", "p">>
ChanQuiet == <<"#", "q">>

\* bot.config.tts: TTSSection with its defaults, confidence_threshold in
\* hundredths
BaseConfig ==
    [default_lang |-> "en",
     force_lang |-> FALSE,
     prefer_wavenet |-> FALSE,
     confidence_threshold |-> 40,
     speech_rate |-> "default",
     mute_nicks |-> {NickChanServ},
     mute_msgs |-> {<<".">>, <<"!">>},
     mute_channels |-> {ChanQuiet},
     startup_msg |-> <<"o", "n", "l", "i", "n", "e">>]


(***************************************************************************)
(* The state of the bot, its two worker processes and the temporary        *)
(* directory.                                                              *)
(***************************************************************************)
VARIABLES
    booted,     \* setup(bot) has run
    config,     \* bot.config.tts
    mute,       \* bot.memory['tts']['control']['mute']
    textQ,      \* bot.memory['tts']['queues']['text']
    audioQ,     \* bot.memory['tts']['queues']['audio']
    procPc,     \* where handle_messages stands
    voices,     \* handle_messages: voices
    cur,        \* handle_messages: the locals of the message in work
    playerPc,   \* where play_audio stands
    fn,         \* play_audio: fn
    disk,       \* the sopel-tts-*.* files in the temporary directory
    running,    \* the files whose playback command is running
    nextMsg,    \* the number the next message put on the text queue gets
    nextFile,   \* the name mkstemp gives the next file
    trigger,    \* history: the trigger speak was last called with
    synthLog,   \* history: the message of each voice.speak call
    madeLog,    \* history: each file mkstemp made, with its message and
                \* whether the audio was written to it
    playLog,    \* history: the file of each subprocess.call
    delLog,     \* history: the file of each os.unlink that play_audio got done
    call,       \* the arguments of a helper called on its own
    ret         \* what that helper returned

vars ==
    <<booted, config, mute, textQ, audioQ, procPc, voices, cur, playerPc, fn,
      disk, running, nextMsg, nextFile, trigger, synthLog, madeLog, playLog,
      delLog, call, ret>>

ingestVars == <<booted, config, mute, textQ, nextMsg, trigger>>
procVars == <<procPc, voices, cur, nextFile, synthLog, madeLog>>
playerVars == <<playerPc, fn, running, playLog, delLog>>
helperVars == <<call, ret>>

NoCur == [id |-> 0]
NoFile == -1
NoTrigger == [nick |-> <<>>, sender |-> <<>>, text |-> <<>>]
NoCall == [op |-> ""]

\* a file a crashed earlier run left behind
StaleFile == 0

\* the configurations the pipeline is run under
PipelineConfigs == {BaseConfig}

\* the answers get_all_voices may get from the providers
PipelineListings == {ListingAws}

Init ==
    /\ booted = FALSE
    /\ config \in PipelineConfigs
    /\ mute = FALSE
    /\ textQ = <<>>
    /\ audioQ = <<>>
    /\ procPc = "off"
    /\ voices = <<>>
    /\ cur = NoCur
    /\ playerPc = "off"
    /\ fn = NoFile
    /\ disk \in {{}, {StaleFile}}
    /\ running = {}
    /\ nextMsg = 1
    /\ nextFile = 1
    /\ trigger = NoTrigger
    /\ synthLog = <<>>
    /\ madeLog = <<>>
    /\ playLog = <<>>
    /\ delLog = <<>>
    /\ call = NoCall
    /\ ret = NoCall

(***************************************************************************)
(* setup, control and speak: the handlers in the bot's own process.        *)
(***************************************************************************)
\* setup(bot): the flag, the queues, both workers started, then the startup
\* message put on the text queue
Setup ==
    /\ ~booted
    /\ booted' = TRUE
    /\ config' = [config EXCEPT !.mute_channels = @ \cup config.mute_nicks]
    /\ mute' = FALSE
    /\ textQ' = <<[id |-> nextMsg, text |-> config.startup_msg, nick |-> BotNick]>>
    /\ nextMsg' = nextMsg + 1
    /\ audioQ' = <<>>
    /\ procPc' = "purge"
    /\ playerPc' = "get"
    /\ UNCHANGED <<voices, cur, fn, disk, running, nextFile, trigger, synthLog,
                   madeLog, playLog, delLog, call, ret>>

\* control(bot, trigger) for the owner's command cmd
ControlCmd(cmd) ==
    /\ booted
    /\ mute' = (IF cmd = "mute" THEN TRUE ELSE IF cmd = "unmute" THEN FALSE ELSE mute)
    /\ UNCHANGED <<booted, config, textQ, nextMsg, trigger, audioQ, disk>>
    /\ UNCHANGED <<procVars, playerVars, helperVars>>

Control == \E cmd \in {"mute", "unmute", "status"} : ControlCmd(cmd)

\* the triggers the bot observes: who spoke, where (a channel, or the
\* speaker's own name for a private message), and the text
Trigger(nick, sender, text) == [nick |-> nick, sender |-> sender, text |-> text]
Triggers ==
    {Trigger(NickAl, ChanPub, <<"h", "i">>),
     Trigger(NickBo, NickBo, <<"h", "i", " ">>),
     Trigger(NickAl, ChanPub, <<" ">>),
     Trigger(BotNick, ChanPub, <<"h", "i">>),
     Trigger(NickChanServ, ChanPub, <<"h", "i">>),
     Trigger(NickChanServ, NickChanServ, <<"h", "i">>),
     Trigger(NickAl, ChanQuiet, <<"h", "i">>),
     Trigger(NickAl, ChanPub, <<".", "h", "i">>),
     Trigger(NickBo, ChanPub, <<" ", "!", "h">>)}

\* speak's condition without its look at the mute flag
SpeakableIgnoringMute(t, original_msg) ==
    /\ t.nick # BotNick
    /\ t.nick \notin config.mute_nicks
    /\ ~\E c \in config.mute_msgs : StartsWith(original_msg, c)
    /\ ~\E c \in config.mute_channels : t.sender = c

\* the condition of speak's if, for the stripped text original_msg
Speakable(t, original_msg) ==
    /\ t.nick # BotNick
    /\ ~mute
    /\ t.nick \notin config.mute_nicks
    /\ ~\E c \in config.mute_msgs : StartsWith(original_msg, c)
    /\ ~\E c \in config.mute_channels : t.sender = c

\* speak(bot, trigger)
SpeakOn(t) ==
    LET original_msg == Strip(t.text)
    IN  /\ booted
        /\ trigger' = t
        /\ IF Speakable(t, original_msg)
           THEN /\ nextMsg <= MaxMsgs
                /\ textQ' = Append(textQ, [id |-> nextMsg, text |-> original_msg,
                                           nick |-> t.nick])
                /\ nextMsg' = nextMsg + 1
           ELSE UNCHANGED <<textQ, nextMsg>>
        /\ UNCHANGED <<booted, config, mute, audioQ, disk>>
        /\ UNCHANGED <<procVars, playerVars, helperVars>>

Speak == \E t \in Triggers : SpeakOn(t)


(***************************************************************************)
(* handle_messages: the processor.                                         *)
(***************************************************************************)
\* the purge run again at every turn of the loop
ProcPurgeEveryTurn ==
    /\ procPc \in {"purge", "get"}
    /\ disk' = {}
    /\ procPc' = (IF procPc = "purge" THEN "load" ELSE procPc)
    /\ UNCHANGED <<voices, cur, nextFile, synthLog, madeLog, audioQ>>
    /\ UNCHANGED <<ingestVars, playerVars, helperVars>>

\* helper = TTSHelper(...); helper.purge_tmp_files(): every old file is
\* unlinked, or an os.unlink raises, which nothing catches
ProcPurge ==
    /\ procPc = "purge"
    /\ \/ /\ disk' = {}
          /\ procPc' = "load"
       \/ /\ disk # {}
          /\ procPc' = "purge_failed"
          /\ UNCHANGED disk
    /\ UNCHANGED <<voices, cur, nextFile, synthLog, madeLog, audioQ>>
    /\ UNCHANGED <<ingestVars, playerVars, helperVars>>

\* voices = helper.get_all_voices() and the classifier's warm-up, up to
\* 'Ready to work'; a provider that cannot be reached raises and ends the
\* process
ProcLoad ==
    /\ procPc = "load"
    /\ \/ \E listing \in PipelineListings :
             /\ voices' = get_all_voices(listing)
             /\ procPc' = "get"
       \/ /\ procPc' = "failed"
          /\ UNCHANGED voices
    /\ UNCHANGED <<cur, nextFile, synthLog, madeLog, audioQ, disk>>
    /\ UNCHANGED <<ingestVars, playerVars, helperVars>>

\* the locals of one turn of the loop, from msg_queue.get() to the voice;
\* det is the classifier's answer, NoDetect when it was not asked
Request(cfg, m, pitch, det, msg_lang, voice) ==
    [id |-> m.id,
     nick |-> m.nick,
     msg |-> [rate |-> cfg.speech_rate, pitch |-> pitch,
              message |-> clean_message(m.text)],
     det |-> IF Classifies(cfg) THEN det ELSE NoDetect,
     msg_lang |-> msg_lang,
     voice |-> voice,
     speech |-> ""]

\* the turn of the loop without its look at an empty clean_message
PrepareNoEmptyCheck(cfg, vs, m, det) ==
    LET pitch == nick2bucket(m.nick, VALID_VOICE_PITCHES)
        msg_lang == ResolveLang(cfg, VoiceLangs(vs), det)
        voice == nick2bucket(m.nick, MsgVoices(cfg, vs, msg_lang))
    IN  IF CleanRaises(m.text) \/ pitch.exc # "" \/ voice.exc # ""
        THEN [pc |-> "dead", cur |-> NoCur]
        ELSE [pc |-> "speak",
              cur |-> Request(cfg, m, pitch.item[1], det, msg_lang, voice.item[1])]

\* lines 162-191 under the configuration cfg and the catalog vs, for the
\* message m and the classifier's answer det: the next position and the
\* locals; an exception that nothing catches ends the process
Prepare(cfg, vs, m, det) ==
    LET pitch == nick2bucket(m.nick, VALID_VOICE_PITCHES)
        msg_lang == ResolveLang(cfg, VoiceLangs(vs), det)
        voice == nick2bucket(m.nick, MsgVoices(cfg, vs, msg_lang))
    IN  IF CleanRaises(m.text) THEN [pc |-> "dead", cur |-> NoCur]
        ELSE IF clean_message(m.text) = <<>> THEN [pc |-> "get", cur |-> NoCur]
        ELSE IF pitch.exc # "" THEN [pc |-> "dead", cur |-> NoCur]
        ELSE IF voice.exc # ""
        THEN [pc |-> "dead",
              cur |-> Request(cfg, m, pitch.item[1], det, msg_lang, voice.exc)]
        ELSE [pc |-> "speak",
              cur |-> Request(cfg, m, pitch.item[1], det, msg_lang, voice.item[1])]

\* the answers the classifier gives in the pipeline
PipelineDetections ==
    {[lang |-> "en", prob |-> 90], [lang |-> "de", prob |-> 90],
     [lang |-> "de", prob |-> 10]}

\* the loop entered before the catalog is there
ProcGetBeforeLoad ==
    /\ procPc \in {"load", "get"}
    /\ textQ # <<>>
    /\ \E det \in (IF Classifies(config) /\ clean_message(Head(textQ).text) # <<>>
                   THEN PipelineDetections ELSE {NoDetect}) :
          LET next == Prepare(config, voices, Head(textQ), det)
          IN  /\ procPc' = next.pc
              /\ cur' = IF next.pc = "speak" THEN next.cur ELSE NoCur
    /\ textQ' = Tail(textQ)
    /\ UNCHANGED <<voices, nextFile, synthLog, madeLog, audioQ, disk>>
    /\ UNCHANGED <<booted, config, mute, nextMsg, trigger>>
    /\ UNCHANGED <<playerVars, helperVars>>

\* orig_msg, nick = msg_queue.get() and the work up to voice.speak
ProcGet ==
    /\ procPc = "get"
    /\ textQ # <<>>
    /\ \E det \in (IF Classifies(config) /\ clean_message(Head(textQ).text) # <<>>
                   THEN PipelineDetections ELSE {NoDetect}) :
          LET next == Prepare(config, voices, Head(textQ), det)
          IN  /\ procPc' = next.pc
              /\ cur' = IF next.pc = "speak" THEN next.cur ELSE NoCur
    /\ textQ' = Tail(textQ)
    /\ UNCHANGED <<voices, nextFile, synthLog, madeLog, audioQ, disk>>
    /\ UNCHANGED <<booted, config, mute, nextMsg, trigger>>
    /\ UNCHANGED <<playerVars, helperVars>>

\* speech = voice.speak(msg): audio, no audio at all, or an exception
SpeakResults == {"audio", "empty", "raise"}

ProcSpeak ==
    /\ procPc = "speak"
    /\ synthLog' = Append(synthLog, cur.id)
    /\ \E result \in SpeakResults :
          IF result = "raise"
          THEN /\ procPc' = "get"
               /\ cur' = NoCur
          ELSE /\ procPc' = "write"
               /\ cur' = [cur EXCEPT !.speech = result]
    /\ UNCHANGED <<voices, nextFile, madeLog, audioQ, disk>>
    /\ UNCHANGED <<ingestVars, playerVars, helperVars>>

\* tmp_fn = helper.write_to_tmp_file(speech) and the put that follows:
\* mkstemp fails (nothing is caught), or the file is made and the write
\* fails (caught, None is returned), or the write succeeds
WriteResults == {"ok", "write_error", "mkstemp_error"}

ProcWrite ==
    /\ procPc = "write"
    /\ \E result \in WriteResults :
          IF result = "mkstemp_error"
          THEN /\ procPc' = "dead"
               /\ UNCHANGED <<disk, nextFile, madeLog, audioQ>>
          ELSE /\ disk' = disk \cup {nextFile}
               /\ nextFile' = nextFile + 1
               /\ madeLog' = Append(madeLog, [file |-> nextFile, msg |-> cur.id,
                                              written |-> result = "ok"])
               /\ audioQ' = IF result = "ok" THEN Append(audioQ, nextFile) ELSE audioQ
               /\ procPc' = "get"
    /\ cur' = NoCur
    /\ UNCHANGED <<voices, synthLog>>
    /\ UNCHANGED <<ingestVars, playerVars, helperVars>>

(***************************************************************************)
(* play_audio: the player.                                                 *)
(***************************************************************************)
\* the player starting the command without waiting for the one before
PlayGetNoWait ==
    /\ playerPc \in {"get", "playing"}
    /\ audioQ # <<>>
    /\ fn' = Head(audioQ)
    /\ audioQ' = Tail(audioQ)
    /\ playLog' = Append(playLog, Head(audioQ))
    /\ running' = running \cup {Head(audioQ)}
    /\ playerPc' = "playing"
    /\ UNCHANGED <<delLog, disk>>
    /\ UNCHANGED <<ingestVars, procVars, helperVars>>

\* the player taking the newest file of the audio queue
PlayGetNewest ==
    /\ playerPc = "get"
    /\ audioQ # <<>>
    /\ fn' = audioQ[Len(audioQ)]
    /\ audioQ' = SubSeq(audioQ, 1, Len(audioQ) - 1)
    /\ playLog' = Append(playLog, audioQ[Len(audioQ)])
    /\ \/ /\ running' = running \cup {audioQ[Len(audioQ)]}
          /\ playerPc' = "playing"
       \/ /\ playerPc' = "get"
          /\ UNCHANGED running
    /\ UNCHANGED <<delLog, disk>>
    /\ UNCHANGED <<ingestVars, procVars, helperVars>>

\* fn = audio_queue.get() and the start of subprocess.call: the command
\* runs, or starting it raises, which is logged
PlayGet ==
    /\ playerPc = "get"
    /\ audioQ # <<>>
    /\ fn' = Head(audioQ)
    /\ audioQ' = Tail(audioQ)
    /\ playLog' = Append(playLog, Head(audioQ))
    /\ \/ /\ running' = running \cup {Head(audioQ)}
          /\ playerPc' = "playing"
       \/ /\ playerPc' = "get"
          /\ UNCHANGED running
    /\ UNCHANGED <<delLog, disk>>
    /\ UNCHANGED <<ingestVars, procVars, helperVars>>

\* subprocess.call returns and the else branch runs: os.unlink(fn), which
\* may raise (nothing is caught), then the pause
PlayReturn ==
    /\ playerPc = "playing"
    /\ running' = running \ {fn}
    /\ \/ /\ disk' = disk \ {fn}
          /\ delLog' = Append(delLog, fn)
          /\ playerPc' = "get"
       \/ /\ playerPc' = "dead"
          /\ UNCHANGED <<disk, delLog>>
    /\ UNCHANGED <<fn, playLog, audioQ>>
    /\ UNCHANGED <<ingestVars, procVars, helperVars>>

Next ==
    \/ Setup
    \/ Control
    \/ Speak
    \/ ProcPurge
    \/ ProcLoad
    \/ ProcGet
    \/ ProcSpeak
    \/ ProcWrite
    \/ PlayGet
    \/ PlayReturn

Spec == Init /\ [][Next]_vars


(***************************************************************************)
(* The helpers called on their own: one call, drawn at the start, and its  *)
(* result.                                                                 *)
(***************************************************************************)
\* the configurations a message may be prepared under
HelperConfigs ==
    {[BaseConfig EXCEPT !.force_lang = f, !.prefer_wavenet = w, !.default_lang = d] :
        f \in BOOLEAN, w \in BOOLEAN, d \in {"en", "fr"}}

HelperListings == {ListingAws, ListingBoth, ListingNone}

\* one character outside ASCII (e with acute accent), written by its code
\* point
NonAsciiChar == "U+00E9"

HelperMessages ==
    {[id |-> 1, text |-> t, nick |-> n] :
        t \in {<<"h", "i">>, <<NonAsciiChar>>, <<>>}, n \in {NickAl, NickBo, BotNick}}

PrepareCalls ==
    [op : {"prepare"}, cfg : HelperConfigs, listing : HelperListings,
     m : HelperMessages, det : Detections]

\* the identities nick2bucket is tried on, the empty and the blank ones
\* included
IdentityChars == {" ", "A", "a", "b"}
Identities == UNION {[1..k -> IdentityChars] : k \in 0..MaxNickLen}

BucketCollections ==
    {VALID_VOICE_PITCHES, get_all_voices(ListingAws), get_all_voices(ListingBoth)}

BucketCalls ==
    [op : {"bucket"}, nick : Identities, other : Identities,
     buckets : BucketCollections]

\* the tokens clean_message and the collapse are tried on: every string of
\* up to MaxTokenLen of these characters
TokenChars == {"a", "*", "&"}
Tokens == UNION {[1..k -> TokenChars] : k \in 1..MaxTokenLen}

\* messages that take the other paths of clean_token: the replacement
\* table, URLs, several tokens, characters outside ASCII
SpecialTexts ==
    {<<"l", "o", "l">>,
     <<"L", "O", "L", "<", "b", ">">>,
     <<"<", "3">>,
     <<"\\", "o", "/">>,
     <<"h", "t", "t", "p", ":", "/", "/", "w", "w", "w", ".", "a", ".", "b", "/", "c">>,
     <<"H", "t", "t", "p", ":", "/", "/", "a", "&", "b">>,
     <<"h", "t", "t", "p", ":", "/", "/", "[">>,
     <<"*", "a", "<", "*">>,
     <<"a", " ", "&", " ", " ", "b">>,
     <<"a", ":", "3">>,
     <<NonAsciiChar>>,
     <<" ">>}

CleanCalls == [op : {"clean"}, text : Tokens \cup SpecialTexts]

CollapseCalls == [op : {"collapse"}, text : Tokens]

InitHelper ==
    /\ booted = FALSE
    /\ config = BaseConfig
    /\ mute = FALSE
    /\ textQ = <<>>
    /\ audioQ = <<>>
    /\ procPc = "off"
    /\ voices = <<>>
    /\ cur = NoCur
    /\ playerPc = "off"
    /\ fn = NoFile
    /\ disk = {}
    /\ running = {}
    /\ nextMsg = 1
    /\ nextFile = 1
    /\ trigger = NoTrigger
    /\ synthLog = <<>>
    /\ madeLog = <<>>
    /\ playLog = <<>>
    /\ delLog = <<>>
    /\ call \in PrepareCalls \cup BucketCalls \cup CleanCalls \cup CollapseCalls
    /\ ret = NoCall

pipelineVars ==
    <<booted, config, mute, textQ, audioQ, procPc, voices, cur, playerPc, fn,
      disk, running, nextMsg, nextFile, trigger, synthLog, madeLog, playLog,
      delLog>>

\* one turn of handle_messages' loop up to the voice, on its own
ApplyPrepare ==
    /\ call.op = "prepare"
    /\ ret = NoCall
    /\ ret' = Prepare(call.cfg, get_all_voices(call.listing), call.m, call.det)
    /\ UNCHANGED <<call, pipelineVars>>

\* nick2bucket on two identities and the same collection
ApplyBucket ==
    /\ call.op = "bucket"
    /\ ret = NoCall
    /\ ret' = [first |-> nick2bucket(call.nick, call.buckets),
               second |-> nick2bucket(call.other, call.buckets)]
    /\ UNCHANGED <<call, pipelineVars>>

\* clean_message on its own: whether it raises, and what it returns
ApplyClean ==
    /\ call.op = "clean"
    /\ ret = NoCall
    /\ ret' = [raises |-> CleanRaises(call.text),
               out |-> IF CleanRaises(call.text) THEN <<>> ELSE clean_message(call.text)]
    /\ UNCHANGED <<call, pipelineVars>>

\* clean_token's re.sub on its own, applied once and applied to its result
ApplyCollapse ==
    /\ call.op = "collapse"
    /\ ret = NoCall
    /\ ret' = [once |-> Collapse(call.text), twice |-> Collapse(Collapse(call.text))]
    /\ UNCHANGED <<call, pipelineVars>>

NextHelper ==
    \/ ApplyPrepare
    \/ ApplyBucket
    \/ ApplyClean
    \/ ApplyCollapse

HelperSpec == InitHelper /\ [][NextHelper]_vars


(***************************************************************************)
(* The properties.                                                         *)
(***************************************************************************)
Range(seq) == {seq[i] : i \in DOMAIN seq}
Count(seq, x) == Cardinality({i \in DOMAIN seq : seq[i] = x})

\* the playback attempt for file f is over: subprocess.call was entered for
\* it and has returned or raised
PlayAttemptOver(f) == f \in Range(playLog) /\ ~(playerPc = "playing" /\ fn = f)

(* C1: every artifact whose playback attempt is over, whether the command  *)
(* ran or raised, has been deleted by the player exactly once and is no    *)
(* longer on disk.                                                         *)
ArtifactDeletedAfterPlayback ==
    \A f \in Range(playLog) :
        PlayAttemptOver(f) => f \notin disk /\ Count(delLog, f) = 1

(* C2: at most one playback command runs at any time, and the audio queue  *)
(* loses an item only in a step taken while no playback command runs.      *)
PlaybackSerialized ==
    /\ [](Cardinality(running) <= 1)
    /\ [][Len(audioQ') < Len(audioQ) => running = {}]_vars

\* one artifact is playing while the next one waits in the audio queue
PlaybackSerializedWitness ==
    /\ playerPc = "playing"
    /\ running = {fn}
    /\ audioQ # <<>>

(* C3: no message stops a worker: neither loop is ever ended by an         *)
(* exception raised while a message or an artifact is handled.             *)
WorkersSurviveMessages == procPc # "dead" /\ playerPc # "dead"

(* C4: a message whose voice.speak call failed, by an exception or by an   *)
(* empty payload, is discarded: the worker does not go on to persist its   *)
(* payload, and no step taken while it holds one puts anything on the      *)
(* audio queue.                                                            *)
SynthesisFailureEnqueuesNothing ==
    [][(procPc = "write" /\ cur.speech # "audio") => Len(audioQ') <= Len(audioQ)]_vars

(* C5: when write_to_tmp_file does not put the audio into a file, nothing  *)
(* is enqueued, the worker goes back to the text queue, and no file made   *)
(* for the message stays on disk.                                          *)
PersistenceFailureLeavesNothing ==
    [][(procPc = "write" /\ procPc' # "write" /\ audioQ' = audioQ)
         => (procPc' = "get" /\ disk' \subseteq disk)]_vars

\* no message is synthesized twice and none gets two artifacts; an artifact
\* exists only for a message synthesized exactly once; an artifact whose
\* audio was written is on the audio queue once or has had one playback
\* call, never both and never more; one whose write failed is never queued
\* or played
ExactlyOnce ==
    /\ \A id \in 1..(nextMsg - 1) :
          /\ Count(synthLog, id) <= 1
          /\ Cardinality({k \in DOMAIN madeLog : madeLog[k].msg = id}) <= 1
    /\ \A k \in DOMAIN madeLog :
          /\ Count(synthLog, madeLog[k].msg) = 1
          /\ Count(audioQ, madeLog[k].file) + Count(playLog, madeLog[k].file)
                = (IF madeLog[k].written THEN 1 ELSE 0)
    /\ \A f \in Range(audioQ) \cup Range(playLog) :
          \E k \in DOMAIN madeLog : madeLog[k].file = f

(* C6: a message whose synthesis and persistence succeeded gets exactly    *)
(* one voice.speak call, one artifact and one playback call: never two of  *)
(* any, and its artifact never waits on the audio queue for a player that  *)
(* has stopped.                                                            *)
EveryArtifactPlayedOnce ==
    /\ ExactlyOnce
    /\ audioQ # <<>> => playerPc # "dead"

\* the five conditions of the ingestion filter for the trigger t, its text
\* taken as text
PassesFilter(t, text) ==
    /\ t.nick # BotNick
    /\ t.nick \notin config.mute_nicks
    /\ t.sender \notin config.mute_channels
    /\ ~\E c \in config.mute_msgs : StartsWith(text, c)
    /\ ~mute

\* a step in which the bot, set up, puts a message on the text queue
Enqueues == booted /\ Len(textQ') > Len(textQ)

\* the text of trigger t the mute prefixes are looked for in: as observed,
\* or stripped of its surrounding whitespace
FilterText(t, stripped) == IF stripped THEN Strip(t.text) ELSE t.text

\* what every step does about ingestion
IngestStep(stripped) ==
    /\ Enqueues =>
          /\ PassesFilter(trigger', FilterText(trigger', stripped))
          /\ \E id \in 1..MaxMsgs :
                textQ' = Append(textQ, [id |-> id, text |-> Strip(trigger'.text),
                                        nick |-> trigger'.nick])
    /\ (trigger' # trigger /\ PassesFilter(trigger', FilterText(trigger', stripped)))
          => Enqueues
    /\ (booted /\ mute) => ~Enqueues
    /\ mute' # mute =>
          UNCHANGED <<booted, config, textQ, audioQ, procPc, voices, cur, playerPc,
                      fn, disk, running, nextMsg, nextFile, trigger, synthLog,
                      madeLog, playLog, delLog, call, ret>>

(* C7, as claimed: speak enqueues the observed message if and only if the  *)
(* speaker is not the bot, the speaker is not in the mute-nick list, the   *)
(* channel is not in the mute-channel list, the text does not start with a *)
(* mute prefix and the mute flag is not set; nothing is enqueued while the *)
(* flag is set; mute and unmute change nothing but the flag.               *)
IngestFilterOnRawText == [][IngestStep(FALSE)]_vars

(* C7, amended: the same, with the mute prefixes looked for in the text    *)
(* stripped of its surrounding whitespace.                                 *)
IngestFilterOnStrippedText == [][IngestStep(TRUE)]_vars

\* muted, with a message queued before the mute still on the text queue,
\* and a message that passes all the other conditions just observed
IngestFilterWitness ==
    /\ mute
    /\ trigger = Trigger(NickAl, ChanPub, <<"h", "i">>)
    /\ \E i \in DOMAIN textQ : textQ[i].nick = NickBo

\* a catalog has a voice of the language
HasVoice(vs, lang) == \E k \in DOMAIN vs : Head(vs[k].lang_id) = lang

\* a prepare call has returned with the language resolved
Resolved == call.op = "prepare" /\ ret # NoCall /\ ret.cur # NoCur

(* C8: under force_lang the classifier is not asked and the language is    *)
(* the default; otherwise a confidence below the threshold or a detected   *)
(* language without a voice gives the default, and anything else gives the *)
(* detected language.                                                      *)
LanguageResolution ==
    Resolved =>
        LET cfg == call.cfg
            fallback ==
                \/ call.det.prob < cfg.confidence_threshold
                \/ ~HasVoice(get_all_voices(call.listing), call.det.lang)
        IN  /\ cfg.force_lang =>
                  ret.cur.det = NoDetect /\ ret.cur.msg_lang = cfg.default_lang
            /\ (~cfg.force_lang /\ fallback) => ret.cur.msg_lang = cfg.default_lang
            /\ (~cfg.force_lang /\ ~fallback) =>
                  ret.cur.det = call.det /\ ret.cur.msg_lang = call.det.lang

\* a language with voices, detected with too little confidence, gave way to
\* the default
LanguageResolutionWitness ==
    /\ Resolved
    /\ ~call.cfg.force_lang
    /\ call.det = [lang |-> "de", prob |-> 10]
    /\ HasVoice(get_all_voices(call.listing), "de")
    /\ ret.cur.msg_lang = "en"
    /\ ret.pc = "speak"

(* C9: the voice a message is synthesized with has the resolved language   *)
(* as the prefix of its language code.                                     *)
VoiceOfResolvedLanguage ==
    (call.op = "prepare" /\ ret # NoCall /\ ret.pc = "speak")
        => Head(ret.cur.voice.lang_id) = ret.cur.msg_lang

\* the identity as nick2bucket is meant to see it
NormalIdentity(nick) == Lower(Strip(nick))

(* C10: for every identity, the empty and the blank ones included, and     *)
(* every non-empty collection, nick2bucket returns an element of the       *)
(* collection, and two identities that differ only in letter case or       *)
(* surrounding whitespace get the same element.                            *)
BucketTotalAndStable ==
    (call.op = "bucket" /\ ret # NoCall) =>
        /\ ret.first.exc = ""
        /\ ret.second.exc = ""
        /\ Head(ret.first.item) \in Range(call.buckets)
        /\ NormalIdentity(call.nick) = NormalIdentity(call.other)
              => ret.first.item = ret.second.item

(* C11: once loading the voice catalog has failed at startup, the bot      *)
(* accepts no further message onto the text queue.                         *)
CatalogFailureStopsIngestion ==
    [][procPc = "failed" => Len(textQ') <= Len(textQ)]_vars

\* the startup message as setup puts it on the text queue
StartupItem == [id |-> 1, text |-> config.startup_msg, nick |-> BotNick]

\* a step in which handle_messages takes an item from the text queue
Dequeues == Len(textQ') < Len(textQ)

(* C12: once setup has run both workers are started; until the catalog is  *)
(* loaded and the classifier warmed up nothing has been taken from the     *)
(* text queue and the startup message is at its head; an item is dequeued  *)
(* only by the loop that follows the loading, and the first item dequeued  *)
(* is the startup message.                                                 *)
StartupOrder ==
    /\ [](booted => procPc # "off" /\ playerPc # "off")
    /\ []((booted /\ procPc \in {"purge", "load"}) =>
              /\ Len(textQ) = nextMsg - 1
              /\ Head(textQ) = StartupItem)
    /\ [][Dequeues =>
             /\ procPc = "get"
             /\ voices # <<>>
             /\ textQ' = Tail(textQ)
             /\ (Len(textQ) = nextMsg - 1) => (Head(textQ) = StartupItem)]_vars

\* the startup message is being synthesized while a later message waits
StartupOrderWitness ==
    /\ procPc = "speak"
    /\ cur.id = StartupItem.id
    /\ cur.nick = BotNick
    /\ textQ # <<>>
    /\ synthLog = <<>>

\* the processed tokens of a message, joined, as clean_message has them
\* before its strip
ProcessedTokens(msg) ==
    LET tokens == Split(msg)
    IN  JoinSpace([k \in DOMAIN tokens |-> clean_token(tokens[k])])

HasPrintableAscii(s) == \E k \in DOMAIN s : s[k] # NonAsciiChar

(* C13: for a message whose joined, processed tokens have no printable     *)
(* ASCII character clean_message returns the empty string, and             *)
(* handle_messages, its catalog holding a voice of the default language,   *)
(* drops the message and goes back to the text queue without a voice.speak *)
(* call.                                                                   *)
GarbageMessageDropped ==
    /\ (call.op = "clean" /\ ret # NoCall /\ ~ret.raises
          /\ ~HasPrintableAscii(ProcessedTokens(call.text)))
        => ret.out = <<>>
    /\ (call.op = "prepare" /\ ret # NoCall
          /\ HasVoice(get_all_voices(call.listing), call.cfg.default_lang)
          /\ ~HasPrintableAscii(ProcessedTokens(call.m.text)))
        => (ret.pc = "get" /\ ret.cur = NoCur)

\* the characters the markup reserves
Reserved == {"&", "<", ">"}

(* C14: whatever path its tokens take, the text clean_message returns      *)
(* holds no &, < or > copied unescaped from the message.                   *)
NoRawReservedCharacter ==
    (call.op = "clean" /\ ret # NoCall /\ ~ret.raises)
        => \A k \in DOMAIN ret.out : ret.out[k] \notin Reserved

\* a single token that is no http URL and matches no replacement pattern
IsPlainToken(t) ==
    /\ Split(t) = <<t>>
    /\ ~StartsWith(urlparse(t).scheme, <<"h", "t", "t", "p">>)
    /\ TokenReplacement(t) = ""

\* what xml_escape writes for the reserved characters
Escapes == {"&amp;", "&lt;", "&gt;"}

\* no character three times in a row
NoTriple(s) ==
    \A k \in 1..(Len(s) - 2) :
        ~(s[k] = s[k + 1] /\ s[k + 1] = s[k + 2] /\ s[k] \notin Escapes)

(* C15: the normalized form of a token that is no URL and matches no       *)
(* replacement pattern has no character three or more times in a row.      *)
RunsOfThreeCollapsed ==
    (call.op = "clean" /\ ret # NoCall /\ ~ret.raises /\ IsPlainToken(call.text))
        => NoTriple(ret.out)

(* C20: for every token, the repeated-character collapse applied to its    *)
(* own result changes nothing.                                             *)
CollapseIdempotent ==
    (call.op = "collapse" /\ ret # NoCall) => ret.twice = ret.once

\* a token with a run of five and a run of four, collapsed
CollapseIdempotentWitness ==
    /\ call.op = "collapse"
    /\ ret # NoCall
    /\ call.text = <<"a", "a", "a", "a", "a">>
    /\ ret.once = <<"a", "a">>

(* C16: when clean_message gives the empty string for the message taken    *)
(* from the text queue, the worker keeps none of the turn's locals (no     *)
(* language, no voice), calls neither voice.speak nor write_to_tmp_file,   *)
(* puts nothing on the audio queue and is back at msg_queue.get().         *)
EmptyNormalizationDiscarded ==
    [][(Dequeues /\ clean_message(Head(textQ).text) = <<>>) =>
          /\ procPc' = "get"
          /\ cur' = NoCur
          /\ UNCHANGED <<synthLog, madeLog, audioQ, disk, nextFile>>]_vars

\* the startup message was synthesized, and a second message, whose text
\* was blank, has left the text queue without a voice.speak call
EmptyNormalizationWitness ==
    /\ trigger = Trigger(NickAl, ChanPub, <<" ">>)
    /\ nextMsg = 3
    /\ textQ = <<>>
    /\ procPc = "get"
    /\ synthLog = <<1>>

(* C17: when the catalog is not empty, every message that reaches the      *)
(* voice selection gets a voice: nick2bucket is not called on an empty     *)
(* list of voices, whatever the default language.                          *)
VoiceListNeverEmpty ==
    (call.op = "prepare" /\ ret # NoCall /\ get_all_voices(call.listing) # <<>>
       /\ ret.cur # NoCur)
        => ret.pc = "speak"

\* the message an artifact was made for
MsgOfFile(f) == madeLog[CHOOSE k \in DOMAIN madeLog : madeLog[k].file = f].msg

Increasing(seq) == \A i, j \in DOMAIN seq : i < j => seq[i] < seq[j]

\* the messages in pipeline order: those whose artifact was handed to the
\* playback command, those whose artifact waits on the audio queue, the one
\* in work, those on the text queue
PipelineOrder ==
    [i \in DOMAIN playLog |-> MsgOfFile(playLog[i])]
       \o [i \in DOMAIN audioQ |-> MsgOfFile(audioQ[i])]
       \o (IF cur.id # 0 THEN <<cur.id>> ELSE <<>>)
       \o [i \in DOMAIN textQ |-> textQ[i].id]

(* C18: both queues give their items out first in, first out, and the      *)
(* artifacts are played in the order in which their messages were put on   *)
(* the text queue, dropped messages being the only gaps.                   *)
OrderPreserved ==
    /\ [](Increasing(PipelineOrder))
    /\ [][(Dequeues => textQ' = Tail(textQ))
           /\ (Len(audioQ') < Len(audioQ) =>
                  (audioQ' = Tail(audioQ) /\ fn' = Head(audioQ)))]_vars

\* the first and the third message were played, the second was dropped
OrderPreservedWitness ==
    /\ Len(playLog) = 2
    /\ MsgOfFile(playLog[1]) = 1
    /\ MsgOfFile(playLog[2]) = 3

(* C19: an old file is on disk only until the purge, which is over before  *)
(* anything is taken from the text queue, and every file named on the      *)
(* audio queue or being played exists.                                     *)
PurgeSparesCurrentRun ==
    /\ StaleFile \in disk =>
          /\ procPc \in {"off", "purge", "purge_failed"}
          /\ Len(textQ) = nextMsg - 1
    /\ \A f \in Range(audioQ) : f \in disk
    /\ playerPc = "playing" => fn \in disk

\* after the purge of an old file: one artifact is being played, another
\* waits, and one was deleted by the player
PurgeSparesCurrentRunWitness ==
    /\ procPc = "get"
    /\ playerPc = "playing"
    /\ audioQ # <<>>
    /\ disk = Range(audioQ) \cup {fn}
    /\ delLog # <<>>

=============================================================================
